---- MODULE Spec2Model ----
(***************************************************************************)
(* A model of the risk-constrained trade decision and simulation engine   *)
(* of robingood-bot: execution/risk.py (RiskManager), strategy/backtest.py *)
(* (Backtester) and the live decision loop of main.py / api/routes.py.     *)
(*                                                                         *)
(* Every number the Python code computes with is a float.  The model keeps *)
(* Python's arithmetic: an IEEE-754 binary64 value is a sign, a 53-bit     *)
(* significand and an exponent, and +, -, *, / round to nearest, ties to   *)
(* even, as CPython and numpy do.  Significands are wider than TLC's       *)
(* integers, so they are held as sequences of base-2^14 digits.  The       *)
(* exponent is unbounded: overflow, subnormals, infinities, NaN and the    *)
(* sign of zero are left out (no value of the model comes near them).      *)
(***************************************************************************)
EXTENDS Integers, Sequences, FiniteSets, TLC

(***************************************************************************)
(* Natural numbers of any size: digits base 2^14, least significant        *)
(* first, no leading zero digit; <<>> is 0.                                *)
(***************************************************************************)
DigitBits == 14

Base == 2^DigitBits

Max(x, y) == IF x >= y THEN x ELSE y

Min(x, y) == IF x <= y THEN x ELSE y

RECURSIVE BStrip(_)
BStrip(a) ==
    IF a = <<>> THEN a
    ELSE IF a[Len(a)] = 0 THEN BStrip(SubSeq(a, 1, Len(a) - 1))
    ELSE a

BDigit(a, i) == IF i >= 1 /\ i <= Len(a) THEN a[i] ELSE 0

\* n in 0 .. 2^31 - 1
BFromInt(n) == BStrip(<<n % Base, (n \div Base) % Base, n \div (Base * Base)>>)

\* a below 2^31
BToInt(a) == BDigit(a, 1) + Base * BDigit(a, 2) + Base * Base * BDigit(a, 3)

RECURSIVE BAddFrom(_, _, _, _)
BAddFrom(a, b, i, c) ==
    IF i > Len(a) /\ i > Len(b)
    THEN IF c = 0 THEN <<>> ELSE <<c>>
    ELSE LET s == BDigit(a, i) + BDigit(b, i) + c
         IN  <<s % Base>> \o BAddFrom(a, b, i + 1, s \div Base)

BAdd(a, b) == BAddFrom(a, b, 1, 0)

\* a >= b
RECURSIVE BSubFrom(_, _, _, _)
BSubFrom(a, b, i, br) ==
    IF i > Len(a) THEN <<>>
    ELSE LET d == a[i] - BDigit(b, i) - br
         IN  IF d < 0
             THEN <<d + Base>> \o BSubFrom(a, b, i + 1, 1)
             ELSE <<d>> \o BSubFrom(a, b, i + 1, 0)

BSub(a, b) == BStrip(BSubFrom(a, b, 1, 0))

RECURSIVE BCmpFrom(_, _, _)
BCmpFrom(a, b, i) ==
    IF i = 0 THEN 0
    ELSE IF a[i] < b[i] THEN -1
    ELSE IF a[i] > b[i] THEN 1
    ELSE BCmpFrom(a, b, i - 1)

\* -1, 0, 1 as a < b, a = b, a > b
BCmp(a, b) ==
    IF Len(a) < Len(b) THEN -1
    ELSE IF Len(a) > Len(b) THEN 1
    ELSE BCmpFrom(a, b, Len(a))

RECURSIVE BMulSmallFrom(_, _, _, _)
BMulSmallFrom(a, k, i, c) ==
    IF i > Len(a)
    THEN IF c = 0 THEN <<>> ELSE <<c>>
    ELSE LET s == a[i] * k + c
         IN  <<s % Base>> \o BMulSmallFrom(a, k, i + 1, s \div Base)

\* k in 0 .. Base
BMulSmall(a, k) == IF k = 0 THEN <<>> ELSE BMulSmallFrom(a, k, 1, 0)

BShiftDigit(a, d) == IF a = <<>> /\ d = 0 THEN <<>> ELSE <<d>> \o a

RECURSIVE BMulFrom(_, _, _)
BMulFrom(a, b, i) ==
    IF i > Len(b) THEN <<>>
    ELSE BAdd(BMulSmall(a, b[i]), BShiftDigit(BMulFrom(a, b, i + 1), 0))

BMul(a, b) == IF a = <<>> THEN <<>> ELSE BMulFrom(a, b, 1)

RECURSIVE BShiftDigits(_, _)
BShiftDigits(a, n) == IF n = 0 THEN a ELSE BShiftDigits(BShiftDigit(a, 0), n - 1)

\* a * 2^k
BShl(a, k) == BMulSmall(BShiftDigits(a, k \div DigitBits), 2^(k % DigitBits))

\* a \div d, d in 1 .. Base: the digits from i down, r the remainder so far
RECURSIVE BDivSmallFrom(_, _, _, _)
BDivSmallFrom(a, d, i, r) ==
    IF i = 0 THEN <<>>
    ELSE LET cur == r * Base + a[i]
         IN  BDivSmallFrom(a, d, i - 1, cur % d) \o <<cur \div d>>

BDivSmall(a, d) == BStrip(BDivSmallFrom(a, d, Len(a), 0))

\* a \div 2^k
BShr(a, k) ==
    LET n == k \div DigitBits
    IN  IF n >= Len(a) THEN <<>>
        ELSE BDivSmall(SubSeq(a, n + 1, Len(a)), 2^(k % DigitBits))

\* bit k of a, counted from 0
BBit(a, k) == (BDigit(a, k \div DigitBits + 1) \div 2^(k % DigitBits)) % 2

\* whether a % 2^k # 0
BLowBits(a, k) ==
    \/ \E i \in 1 .. Min(k \div DigitBits, Len(a)) : a[i] # 0
    \/ BDigit(a, k \div DigitBits + 1) % 2^(k % DigitBits) # 0

RECURSIVE IntBitLen(_)
IntBitLen(n) == IF n = 0 THEN 0 ELSE 1 + IntBitLen(n \div 2)

BBitLen(a) == IF a = <<>> THEN 0 ELSE (Len(a) - 1) * DigitBits + IntBitLen(a[Len(a)])

\* One digit of a long division by b, whose leading digit is at least Base/2:
\* the largest q with q * b <= r, for r < b * Base.
RECURSIVE BQuotFix(_, _, _)
BQuotFix(r, b, q) == IF BCmp(BMulSmall(b, q), r) = 1 THEN BQuotFix(r, b, q - 1) ELSE q

BQuotDigit(r, b) ==
    LET n == Len(b)
        est == (BDigit(r, n + 1) * Base + BDigit(r, n)) \div b[n]
    IN  BQuotFix(r, b, Min(Base - 1, est))

\* The long division of a by b from digit i down, r the remainder so far:
\* <<quotient digits, remainder>>.
RECURSIVE BDivFrom(_, _, _, _)
BDivFrom(a, b, i, r) ==
    IF i = 0 THEN <<<<>>, r>>
    ELSE LET cur == BShiftDigit(r, a[i])
             q == BQuotDigit(cur, b)
             rest == BDivFrom(a, b, i - 1, BSub(cur, BMulSmall(b, q)))
         IN  <<rest[1] \o <<q>>, rest[2]>>

\* <<a \div b, whether a % b # 0>>, b # 0
BDivMod(a, b) ==
    LET s == DigitBits - IntBitLen(b[Len(b)])
        an == BShl(a, s)
        res == BDivFrom(an, BShl(b, s), Len(an), <<>>)
    IN  <<BStrip(res[1]), res[2] # <<>>>>

(***************************************************************************)
(* Python floats.  A float is [s, m, e]: sign s (0 or 1), significand m (a *)
(* natural of exactly MantBits bits, or <<>> for zero) and exponent e; its  *)
(* value is (-1)^s * m * 2^e.                                              *)
(***************************************************************************)
MantBits == 53

FZero == [s |-> 0, m |-> <<>>, e |-> 0]

FIsZero(a) == a.m = <<>>

\* (-1)^s * M * 2^e for a natural M of any size, rounded to nearest, ties to even
FRound(s, M, e) ==
    LET L == BBitLen(M)
        d == L - MantBits
    IN  IF M = <<>> THEN FZero
        ELSE IF d <= 0 THEN [s |-> s, m |-> BShl(M, -d), e |-> e + d]
        ELSE LET q == BShr(M, d)
                 up == /\ BBit(M, d - 1) = 1
                       /\ (BLowBits(M, d - 1) \/ BBit(q, 0) = 1)
                 r == IF up THEN BAdd(q, <<1>>) ELSE q
             IN  IF BBitLen(r) > MantBits
                 THEN [s |-> s, m |-> BShr(r, 1), e |-> e + d + 1]
                 ELSE [s |-> s, m |-> r, e |-> e + d]

\* float(n) for a Python int n
FFromInt(n) == FRound(IF n < 0 THEN 1 ELSE 0, BFromInt(IF n < 0 THEN -n ELSE n), 0)

FNeg(a) == IF FIsZero(a) THEN a ELSE [a EXCEPT !.s = 1 - a.s]

\* |a| against |b|: -1, 0, 1
FCmpMag(a, b) ==
    IF FIsZero(a) THEN (IF FIsZero(b) THEN 0 ELSE -1)
    ELSE IF FIsZero(b) THEN 1
    ELSE IF a.e < b.e THEN -1
    ELSE IF a.e > b.e THEN 1
    ELSE BCmp(a.m, b.m)

\* a against b: -1, 0, 1
FCmp(a, b) ==
    IF a.s # b.s THEN (IF a.s = 1 THEN -1 ELSE 1)
    ELSE IF a.s = 0 THEN FCmpMag(a, b)
    ELSE FCmpMag(b, a)

FLt(a, b) == FCmp(a, b) = -1

FLe(a, b) == FCmp(a, b) # 1

FGt(a, b) == FCmp(a, b) = 1

FGe(a, b) == FCmp(a, b) # -1

FMaxOf(a, b) == IF FGt(b, a) THEN b ELSE a

\* hi has the larger exponent; a summand more than MantBits + 2 binary places
\* below hi is less than a quarter of hi's last place and rounds away
FAddAligned(hi, lo) ==
    LET d == hi.e - lo.e
        H == BShl(hi.m, d)
        c == BCmp(H, lo.m)
    IN  IF d > MantBits + 2 THEN hi
        ELSE IF hi.s = lo.s THEN FRound(hi.s, BAdd(H, lo.m), lo.e)
        ELSE IF c = 0 THEN FZero
        ELSE IF c = 1 THEN FRound(hi.s, BSub(H, lo.m), lo.e)
        ELSE FRound(lo.s, BSub(lo.m, H), lo.e)

\* a + b
FAdd(a, b) ==
    IF FIsZero(a) THEN b
    ELSE IF FIsZero(b) THEN a
    ELSE IF a.e >= b.e THEN FAddAligned(a, b)
    ELSE FAddAligned(b, a)

\* a - b
FSub(a, b) == FAdd(a, FNeg(b))

\* a * b
FMul(a, b) ==
    IF FIsZero(a) \/ FIsZero(b) THEN FZero
    ELSE FRound((a.s + b.s) % 2, BMul(a.m, b.m), a.e + b.e)

\* a / b, b # 0: the quotient to MantBits + 3 bits and more, its last bit
\* standing for a remainder
FDiv(a, b) ==
    IF FIsZero(a) THEN FZero
    ELSE LET k == MantBits + 3
             qr == BDivMod(BShl(a.m, k), b.m)
             M == BAdd(BShl(qr[1], 1), IF qr[2] THEN <<1>> ELSE <<>>)
         IN  FRound((a.s + b.s) % 2, M, a.e - b.e - k - 1)

\* int(a): towards zero; |a| below 2^31
FTrunc(a) ==
    LET mag == IF a.e >= 0 THEN BToInt(BShl(a.m, a.e)) ELSE BToInt(BShr(a.m, -a.e))
    IN  IF a.s = 1 THEN -mag ELSE mag

\* the float a decimal literal n/d denotes (n, d ints that floats hold exactly)
FLit(n, d) == FDiv(FFromInt(n), FFromInt(d))

(***************************************************************************)
(* State.                                                                  *)
(*   rm       the RiskManager instance (self of execution/risk.py)         *)
(*   rm_op    the RiskManager method called last, rm_arg its argument,     *)
(*            rm_ret what it returned, rm_pre the instance before the call *)
(*   passed   the balances passed to update_balance since construction or  *)
(*            the last reset(), in call order                              *)
(*   bt       the Backtester instance (self of strategy/backtest.py)       *)
(*   bt_pc    where the Backtester is: rejected by the constructor, new,   *)
(*            inside _backtest's loop, done, or a run() that raised        *)
(*   bt_i     the loop variable i of _backtest                             *)
(*   bt_pre   cash and positions before the loop iteration run last        *)
(*   bt_arg   the signals argument of the run() called last                *)
(*   bt_start how many run() calls on the instance have passed validation, *)
(*            and its cash, positions and history when the last of them    *)
(*            entered _backtest                                            *)
(*   bt_ret   the last call of get_results() or                            *)
(*            calculate_performance_metrics(): what it returned or raised, *)
(*            and the instance it left behind                              *)
(*   bt_first empty, or the one earlier Backtester instance, kept once a   *)
(*            second one is constructed with the same arguments            *)
(*   live     the trading loop of main.py and the /signals handler         *)
(*   orders   the place_order calls made on the order venue since the      *)
(*            current tick of the loop began, in call order                *)
(***************************************************************************)
VARIABLES rm, rm_op, rm_arg, rm_ret, rm_pre, passed,
          bt, bt_pc, bt_i, bt_pre, bt_arg, bt_start, bt_ret, bt_first,
          live, orders

rmVars == <<rm, rm_op, rm_arg, rm_ret, rm_pre, passed>>

btVars == <<bt, bt_pc, bt_i, bt_pre, bt_arg, bt_start, bt_ret, bt_first>>

liveVars == <<live, orders>>

vars == <<rm, rm_op, rm_arg, rm_ret, rm_pre, passed,
          bt, bt_pc, bt_i, bt_pre, bt_arg, bt_start, bt_ret, bt_first,
          live, orders>>

(***************************************************************************)
(* RiskManager (execution/risk.py).  Constructor arguments are drawn from  *)
(* the ranges the specification gives them: initial_capital > 0 and both   *)
(* fractions in (0, 1].                                                    *)
(***************************************************************************)
MaxUpdates == 3

InitialCapitals == {FFromInt(10000)}

MaxDrawdowns == {FLit(5, 100), FLit(2, 10)}

MaxPositionSizes == {FLit(1, 10)}

Balances == {FFromInt(9000), FFromInt(9500), FFromInt(10000), FFromInt(11000)}

PositionSizes == {FFromInt(900), FFromInt(1000), FFromInt(1500)}

None == "None"

RiskManager(mps, mdd, cap) ==
    [max_position_size |-> mps,
     max_drawdown |-> mdd,
     initial_capital |-> cap,
     current_balance |-> cap,
     peak_balance |-> cap,
     is_kill_switch_active |-> FALSE]

RiskInit ==
    /\ \E mps \in MaxPositionSizes, mdd \in MaxDrawdowns, cap \in InitialCapitals :
          /\ rm = RiskManager(mps, mdd, cap)
          /\ rm_pre = RiskManager(mps, mdd, cap)
    /\ rm_op = "__init__"
    /\ rm_arg = None
    /\ rm_ret = None
    /\ passed = <<>>

\* update_balance with the peak overwritten instead of maximised
UpdatedBalance_NoMax(self, current_balance) ==
    [self EXCEPT !.current_balance = current_balance,
                 !.peak_balance = current_balance]

\* update_balance leaving the peak as it was
UpdatedBalance_StalePeak(self, current_balance) ==
    [self EXCEPT !.current_balance = current_balance]

\* update_balance checking the drawdown itself and latching the kill switch
UpdatedBalance_Latching(self, current_balance) ==
    [self EXCEPT !.current_balance = current_balance,
                 !.peak_balance = FMaxOf(self.peak_balance, current_balance),
                 !.is_kill_switch_active =
                     @ \/ FGt(FDiv(FSub(FMaxOf(self.peak_balance, current_balance),
                                        current_balance),
                                   self.initial_capital),
                              self.max_drawdown)]

\* the instance after update_balance(current_balance)
UpdatedBalance(self, current_balance) ==
    [self EXCEPT !.current_balance = current_balance,
                 !.peak_balance = FMaxOf(self.peak_balance, current_balance)]

update_balance(current_balance) ==
    /\ Len(passed) < MaxUpdates
    /\ rm' = UpdatedBalance(rm, current_balance)
    /\ passed' = Append(passed, current_balance)
    /\ rm_op' = "update_balance"
    /\ rm_arg' = current_balance
    /\ rm_ret' = None
    /\ rm_pre' = rm

\* check_drawdown comparing with >= instead of >
DrawdownExceeded_Ge(self) ==
    LET drawdown == FDiv(FSub(self.peak_balance, self.current_balance), self.initial_capital)
    IN  FGe(drawdown, self.max_drawdown)

\* drawdown > self.max_drawdown
DrawdownExceeded(self) ==
    LET drawdown == FDiv(FSub(self.peak_balance, self.current_balance), self.initial_capital)
    IN  FGt(drawdown, self.max_drawdown)

\* check_drawdown assigning the flag the outcome of the comparison
CheckedDrawdown_Unlatch(self) ==
    [self EXCEPT !.is_kill_switch_active =
        FGt(FDiv(FSub(self.peak_balance, self.current_balance), self.initial_capital),
            self.max_drawdown)]

\* the instance after check_drawdown()
CheckedDrawdown(self) ==
    IF DrawdownExceeded(self) THEN [self EXCEPT !.is_kill_switch_active = TRUE] ELSE self

check_drawdown ==
    /\ rm' = CheckedDrawdown(rm)
    /\ rm_op' = "check_drawdown"
    /\ rm_arg' = None
    /\ rm_ret' = DrawdownExceeded(rm)
    /\ rm_pre' = rm
    /\ UNCHANGED passed

\* check_position_size rejecting a size equal to the limit
PositionSizeOk_Strict(self, position_size) ==
    LET max_allowed_position == FMul(self.current_balance, self.max_position_size)
    IN  FLt(position_size, max_allowed_position)

\* what check_position_size(position_size) returns
PositionSizeOk(self, position_size) ==
    LET max_allowed_position == FMul(self.current_balance, self.max_position_size)
    IN  ~FGt(position_size, max_allowed_position)

check_position_size(position_size) ==
    /\ rm_op' = "check_position_size"
    /\ rm_arg' = position_size
    /\ rm_ret' = PositionSizeOk(rm, position_size)
    /\ rm_pre' = rm
    /\ UNCHANGED <<rm, passed>>

\* what is_trading_allowed() returns
TradingAllowed(self) == IF self.is_kill_switch_active THEN FALSE ELSE TRUE

is_trading_allowed ==
    /\ rm_op' = "is_trading_allowed"
    /\ rm_arg' = None
    /\ rm_ret' = TradingAllowed(rm)
    /\ rm_pre' = rm
    /\ UNCHANGED <<rm, passed>>

\* the instance after activate_kill_switch()
KillSwitchActivated(self) == [self EXCEPT !.is_kill_switch_active = TRUE]

activate_kill_switch ==
    /\ rm' = KillSwitchActivated(rm)
    /\ rm_op' = "activate_kill_switch"
    /\ rm_arg' = None
    /\ rm_ret' = None
    /\ rm_pre' = rm
    /\ UNCHANGED passed

\* reset forgetting the peak
ResetManager_KeepPeak(self) ==
    [self EXCEPT !.current_balance = self.initial_capital,
                 !.is_kill_switch_active = FALSE]

\* the instance after reset()
ResetManager(self) ==
    [self EXCEPT !.current_balance = self.initial_capital,
                 !.peak_balance = self.initial_capital,
                 !.is_kill_switch_active = FALSE]

reset ==
    /\ rm' = ResetManager(rm)
    /\ passed' = <<>>
    /\ rm_op' = "reset"
    /\ rm_arg' = None
    /\ rm_ret' = None
    /\ rm_pre' = rm

RiskNext ==
    \/ \E b \in Balances : update_balance(b)
    \/ check_drawdown
    \/ \E x \in PositionSizes : check_position_size(x)
    \/ is_trading_allowed
    \/ activate_kill_switch
    \/ reset

(***************************************************************************)
(* Backtester (strategy/backtest.py).  A DataFrame is its index (the row   *)
(* labels, in order) and its 'close' column, if it has one; a signals      *)
(* Series is its index and its values.  data['close'][i] and signals[i]    *)
(* read row i by position, counted from 0: row i is element i + 1 here.    *)
(* Prices are positive, 0 <= trading_fee < 1 and initial_capital >= 0.     *)
(***************************************************************************)
MaxLen == 3

MaxRuns == 2

Prices == {FFromInt(110), FFromInt(368)}

BtCapitals == {FFromInt(1000), FFromInt(14168)}

TradingFees == {FZero, FLit(1, 1000), FLit(1, 10)}

SignalValues == {1, -1, 0}

Labels(from, n) == [k \in 1 .. n |-> from + k - 1]

DataFrames ==
    {[has_close |-> TRUE, index |-> Labels(1, Len(c)), close |-> c] :
        c \in UNION {[1 .. m -> Prices] : m \in 1 .. MaxLen}}
    \cup {[has_close |-> FALSE, index |-> Labels(1, 1), close |-> <<>>]}

\* the price series of the specification's worked example
ExampleClose == <<FFromInt(100), FFromInt(110), FFromInt(90), FFromInt(120)>>

\* a price series ending on a price, 0.4, that is not a binary fraction
FractionalClose == <<FFromInt(110), FFromInt(110), FLit(4, 10)>>

\* the constructor arguments tried: every frame with every capital and fee,
\* the worked example (its prices, initial_capital 1000, fee 0) and the
\* fractional prices (initial_capital 1000, fee 0)
BacktesterArgs ==
    (DataFrames \X BtCapitals \X TradingFees)
    \cup {<<[has_close |-> TRUE, index |-> Labels(1, Len(ExampleClose)), close |-> ExampleClose],
            FFromInt(1000), FZero>>,
          <<[has_close |-> TRUE, index |-> Labels(1, Len(FractionalClose)), close |-> FractionalClose],
            FFromInt(1000), FZero>>}

\* The signals arguments tried on a frame of n rows: every Series over the
\* frame's own index, one more of a value that is none of 1, -1 and 0,
\* Series over another index (other labels, one row fewer, one row more,
\* each all BUY) and a plain list.
SignalArgs(n) ==
    {[is_series |-> TRUE, index |-> Labels(1, n), values |-> v] : v \in [1 .. n -> SignalValues]}
    \cup {[is_series |-> TRUE, index |-> Labels(1, n), values |-> [k \in 1 .. n |-> 2]],
          [is_series |-> TRUE, index |-> Labels(2, n), values |-> [k \in 1 .. n |-> 1]],
          [is_series |-> TRUE, index |-> Labels(1, n - 1), values |-> [k \in 1 .. n - 1 |-> 1]],
          [is_series |-> TRUE, index |-> Labels(1, n + 1), values |-> [k \in 1 .. n + 1 |-> 1]],
          [is_series |-> FALSE, index |-> Labels(1, n), values |-> [k \in 1 .. n |-> 1]]}

\* The signals arguments tried on an instance whose earlier run has returned:
\* the same Series again and an all-HOLD Series.
RerunArgs(self) ==
    {self.signals,
     [is_series |-> TRUE, index |-> self.data.index,
      values |-> [k \in 1 .. Len(self.data.index) |-> 0]]}

Backtester(data, initial_capital, trading_fee) ==
    [data |-> data,
     initial_capital |-> initial_capital,
     trading_fee |-> trading_fee,
     cash |-> initial_capital,
     positions |-> 0,
     equity |-> initial_capital,
     history |-> <<>>,
     signals |-> None]

\* no query has been made since the constructor or the last run()
NoCall == [op |-> "none", raised |-> None, value |-> None, pre |-> None]

\* __init__ raises ValueError for a frame without a 'close' column
BtInit ==
    /\ \E args \in BacktesterArgs :
          /\ bt = Backtester(args[1], args[2], args[3])
          /\ bt_pc = IF args[1].has_close THEN "new" ELSE "rejected"
          /\ bt_pre = [cash |-> args[2], positions |-> 0]
          /\ bt_start = [n |-> 0, cash |-> args[2], positions |-> 0, history |-> <<>>]
    /\ bt_i = 0
    /\ bt_arg = None
    /\ bt_ret = NoCall
    /\ bt_first = <<>>

\* run comparing only the lengths of the two indexes
RunError_LengthOnly(self, signals) ==
    IF ~signals.is_series THEN "TypeError"
    ELSE IF Len(self.data.index) # Len(signals.index) THEN "ValueError"
    ELSE None

\* which error run(signals) raises before it simulates anything, if any
RunError(self, signals) ==
    IF ~signals.is_series THEN "TypeError"
    ELSE IF self.data.index # signals.index THEN "ValueError"
    ELSE None

\* run(signals) up to the first iteration of _backtest's loop; it can be
\* called on an instance whose earlier run has returned
run(signals) ==
    /\ bt_pc \in {"new", "TypeError", "ValueError", "done"}
    /\ bt_start.n < MaxRuns
    /\ bt_arg' = signals
    /\ IF RunError(bt, signals) # None
       THEN /\ bt_pc' = RunError(bt, signals)
            /\ UNCHANGED <<bt, bt_i, bt_pre, bt_start>>
       ELSE /\ bt' = [bt EXCEPT !.signals = signals]
            /\ bt_pc' = "loop"
            /\ bt_i' = 1
            /\ bt_start' = [n |-> bt_start.n + 1, cash |-> bt.cash,
                            positions |-> bt.positions, history |-> bt.history]
            /\ UNCHANGED bt_pre
    /\ bt_ret' = NoCall
    /\ UNCHANGED bt_first

FOne == FFromInt(1)

\* the quotient rounded up
SharesToBuy_RoundUp(self, price) ==
    FTrunc(FDiv(self.cash, FMul(price, FAdd(FOne, self.trading_fee)))) + 1

\* int(self.cash / (price * (1 + self.trading_fee)))
SharesToBuy(self, price) ==
    FTrunc(FDiv(self.cash, FMul(price, FAdd(FOne, self.trading_fee))))

\* the buy branch charging no fee
Bought_NoFee(self, price) ==
    IF SharesToBuy(self, price) > 0
    THEN [self EXCEPT !.cash = FSub(self.cash, FMul(FFromInt(SharesToBuy(self, price)), price)),
                      !.positions = self.positions + SharesToBuy(self, price)]
    ELSE self

\* the instance after the buy branch
Bought(self, price) ==
    LET shares_to_buy == SharesToBuy(self, price)
        cost == FMul(FMul(FFromInt(shares_to_buy), price), FAdd(FOne, self.trading_fee))
    IN  IF shares_to_buy > 0
        THEN [self EXCEPT !.cash = FSub(self.cash, cost),
                          !.positions = self.positions + shares_to_buy]
        ELSE self

\* the sell branch selling one share
Sold_OneShare(self, price) ==
    LET revenue == FMul(price, FSub(FOne, self.trading_fee))
    IN  IF self.positions > 0
        THEN [self EXCEPT !.cash = FAdd(self.cash, revenue), !.positions = @ - 1]
        ELSE self

\* the instance after the sell branch
Sold(self, price) ==
    LET revenue == FMul(FMul(FFromInt(self.positions), price), FSub(FOne, self.trading_fee))
    IN  IF self.positions > 0
        THEN [self EXCEPT !.cash = FAdd(self.cash, revenue), !.positions = 0]
        ELSE self

\* every signal that is not a buy handled as a sell
Traded_ElseSell(self, price, signal) ==
    IF signal = 1 THEN Bought(self, price) ELSE Sold(self, price)

\* the instance after the signal of one iteration is handled
Traded(self, price, signal) ==
    IF signal = 1 THEN Bought(self, price)
    ELSE IF signal = -1 THEN Sold(self, price)
    ELSE self

\* self.cash + self.positions * price
Equity(self, price) == FAdd(self.cash, FMul(FFromInt(self.positions), price))

\* the instance with its equity updated and the snapshot appended
Recorded(t, timestamp, price, signal, equity) ==
    [t EXCEPT !.equity = equity,
              !.history = Append(t.history,
                  [timestamp |-> timestamp,
                   price |-> price,
                   signal |-> signal,
                   cash |-> t.cash,
                   positions |-> t.positions,
                   equity |-> equity])]

\* the instance after the signal is handled and the equity updated
Updated(t, timestamp, price, signal) ==
    Recorded(t, timestamp, price, signal, Equity(t, price))

\* the loop reading row i - 1, as range(len(self.data)) would make it
Iterated_FromFirst(self, i) ==
    Updated(Traded(self, self.data.close[i], self.signals.values[i]),
            self.data.index[i], self.data.close[i], self.signals.values[i])

\* the instance after iteration i of _backtest's loop
Iterated(self, i) ==
    Updated(Traded(self, self.data.close[i + 1], self.signals.values[i + 1]),
            self.data.index[i + 1], self.data.close[i + 1], self.signals.values[i + 1])

\* one iteration of for i in range(1, len(self.data))
backtest_iteration ==
    /\ bt_pc = "loop"
    /\ bt_i < Len(bt.data.close)
    /\ bt' = Iterated(bt, bt_i)
    /\ bt_pre' = [cash |-> bt.cash, positions |-> bt.positions]
    /\ bt_i' = bt_i + 1
    /\ UNCHANGED <<bt_pc, bt_arg, bt_start, bt_ret, bt_first>>

\* the loop is exhausted: _backtest and run return
backtest_complete ==
    /\ bt_pc = "loop"
    /\ bt_i >= Len(bt.data.close)
    /\ bt_pc' = "done"
    /\ UNCHANGED <<bt, bt_i, bt_pre, bt_arg, bt_start, bt_ret, bt_first>>

\* float('nan'), and the test for it
NaN == [nan |-> TRUE]

IsNaN(x) == "nan" \in DOMAIN x

\* pd.DataFrame(): no rows, no columns
EmptyFrame == [index |-> <<>>, rows |-> <<>>]

\* the dict {}
EmptyDict == <<>>

\* get_results(): the history as a table indexed by timestamp
Results(self) ==
    IF self.history = <<>> THEN EmptyFrame
    ELSE [index |-> [k \in 1 .. Len(self.history) |-> self.history[k].timestamp],
          rows |-> [k \in 1 .. Len(self.history) |->
                       [price |-> self.history[k].price,
                        signal |-> self.history[k].signal,
                        cash |-> self.history[k].cash,
                        positions |-> self.history[k].positions,
                        equity |-> self.history[k].equity]]]

\* the instance get_results() leaves and what it returns
GotResults(self) == [self |-> self, raised |-> None, value |-> Results(self)]

get_results ==
    /\ bt_pc \in {"new", "done"}
    /\ LET r == GotResults(bt)
       IN  /\ bt' = r.self
           /\ bt_ret' = [op |-> "get_results", raised |-> r.raised,
                         value |-> r.value, pre |-> bt]
    /\ UNCHANGED <<bt_pc, bt_i, bt_pre, bt_arg, bt_start, bt_first>>

\* a local variable: F of the value of e, with e evaluated once
Bind(F(_), e) == CHOOSE y \in {F(x) : x \in {e}} : TRUE

\* a column of a frame, as the sequence of its values
Column(frame, name) == [k \in 1 .. Len(frame.rows) |-> frame.rows[k][name]]

RECURSIVE PctChangeFrom(_, _)
\* value / previous value - 1 from position k on; the first row has no
\* predecessor and gets NaN
PctChangeFrom(equity, k) ==
    IF k > Len(equity) THEN <<>>
    ELSE <<IF k = 1 THEN NaN ELSE FSub(FDiv(equity[k], equity[k - 1]), FOne)>>
         \o PctChangeFrom(equity, k + 1)

\* results['equity'].pct_change()
PctChange(equity) == PctChangeFrom(equity, 1)

RECURSIVE KeptFrom(_, _)
\* the positions k, k + 1, ... of the rows whose returns are not NaN (no
\* other column holds one)
KeptFrom(returns, k) ==
    IF k > Len(returns) THEN <<>>
    ELSE IF IsNaN(returns[k]) THEN KeptFrom(returns, k + 1)
    ELSE <<k>> \o KeptFrom(returns, k + 1)

\* results.dropna(), as the positions of the rows it keeps
DropNa(returns) == KeptFrom(returns, 1)

RECURSIVE TakeFrom(_, _, _)
\* the values of a column at the positions kept[j], kept[j + 1], ...
TakeFrom(column, kept, j) ==
    IF j > Len(kept) THEN <<>>
    ELSE <<column[kept[j]]>> \o TakeFrom(column, kept, j + 1)

RECURSIVE SumFrom(_, _, _)
\* the values from position k on, added to acc one after another
SumFrom(xs, k, acc) ==
    IF k > Len(xs) THEN acc ELSE SumFrom(xs, k + 1, FAdd(acc, xs[k]))

\* Series.sum() of a short Series
Sum(xs) == SumFrom(xs, 1, FZero)

\* Series.mean()
Mean(xs) == FDiv(Sum(xs), FFromInt(Len(xs)))

RECURSIVE SqrFrom(_, _, _)
\* (avg - x)**2 for the values x from position k on
SqrFrom(xs, avg, k) ==
    IF k > Len(xs) THEN <<>>
    ELSE <<FMul(FSub(avg, xs[k]), FSub(avg, xs[k]))>> \o SqrFrom(xs, avg, k + 1)

\* the sample variance (ddof 1) Series.std() takes the root of, Len(xs) > 1
Var(xs) ==
    Bind(LAMBDA avg : FDiv(Sum(SqrFrom(xs, avg, 1)), FFromInt(Len(xs) - 1)), Mean(xs))

\* np.sqrt(252) * (mean / std) if std > 0 else np.nan.  The std of fewer
\* than two values is NaN, and NaN > 0 is False; std > 0 exactly when the
\* variance is.  The value of the product is kept as the term it is
\* computed from.
SharpeRatio(xs) ==
    IF Len(xs) <= 1 THEN NaN
    ELSE Bind(LAMBDA var :
                 IF FGt(var, FZero)
                 THEN [term |-> "np.sqrt(252) * (mean / sqrt(var))",
                       mean |-> Mean(xs), var |-> var]
                 ELSE NaN,
              Var(xs))

\* (1 + total_return)**(252/len(results)) - 1, kept as the term it is
\* computed from
AnnualizedReturn(total_return, n) ==
    [term |-> "base**exponent - 1", base |-> FAdd(FOne, total_return),
     exponent |-> FDiv(FFromInt(252), FFromInt(n))]

\* one pass of the loop of _calculate_max_drawdown
DrawdownStep(loop, value) ==
    LET peak == IF FGt(value, loop.peak) THEN value ELSE loop.peak
    IN  Bind(LAMBDA drawdown :
                 [peak |-> peak,
                  max_drawdown |-> IF FGt(drawdown, loop.max_drawdown)
                                   THEN drawdown ELSE loop.max_drawdown],
             FDiv(FSub(peak, value), peak))

RECURSIVE DrawdownLoop(_, _)
\* peak and max_drawdown after the loop has passed the first k values
DrawdownLoop(equity, k) ==
    IF k = 0 THEN [peak |-> equity[1], max_drawdown |-> FZero]
    ELSE Bind(LAMBDA loop : DrawdownStep(loop, equity[k]), DrawdownLoop(equity, k - 1))

\* _calculate_max_drawdown(equity)
CalculateMaxDrawdown(equity) == DrawdownLoop(equity, Len(equity)).max_drawdown

\* the metrics dict from the equity and returns columns left by dropna()
Metrics(self, equity, returns) ==
    Bind(LAMBDA total_return :
             [initial_capital |-> self.initial_capital,
              final_equity |-> equity[Len(equity)],
              total_return |-> total_return,
              annualized_return |-> AnnualizedReturn(total_return, Len(equity)),
              sharpe_ratio |-> SharpeRatio(returns),
              max_drawdown |-> CalculateMaxDrawdown(equity)],
         FSub(FDiv(equity[Len(equity)], self.initial_capital), FOne))

\* calculate_performance_metrics() past its first check: .iloc[-1] of an
\* empty column raises IndexError
MetricsOf(self, results, returns) ==
    Bind(LAMBDA kept :
             IF kept = <<>>
             THEN [self |-> self, raised |-> "IndexError", value |-> None]
             ELSE [self |-> self, raised |-> None,
                   value |-> Metrics(self, TakeFrom(Column(results, "equity"), kept, 1),
                                     TakeFrom(returns, kept, 1))],
         DropNa(returns))

\* calculate_performance_metrics() without its first check: a frame with no
\* columns has no 'equity'
CalculatedMetrics_Unchecked(self) ==
    IF self.history = <<>>
    THEN [self |-> self, raised |-> "KeyError", value |-> None]
    ELSE Bind(LAMBDA returns : MetricsOf(self, GotResults(self).value, returns),
              PctChange(Column(GotResults(self).value, "equity")))

\* the instance calculate_performance_metrics() leaves and what it returns
\* or raises
CalculatedMetrics(self) ==
    IF self.history = <<>>
    THEN [self |-> self, raised |-> None, value |-> EmptyDict]
    ELSE Bind(LAMBDA returns : MetricsOf(self, GotResults(self).value, returns),
              PctChange(Column(GotResults(self).value, "equity")))

calculate_performance_metrics ==
    /\ bt_pc \in {"new", "done"}
    /\ LET r == CalculatedMetrics(bt)
       IN  /\ bt' = r.self
           /\ bt_ret' = [op |-> "calculate_performance_metrics", raised |-> r.raised,
                         value |-> r.value, pre |-> bt]
    /\ UNCHANGED <<bt_pc, bt_i, bt_pre, bt_arg, bt_start, bt_first>>

\* a second instance that shares the history list of the first, as a list
\* kept on the class would be
Fresh_SharedHistory(self) ==
    [Backtester(self.data, self.initial_capital, self.trading_fee)
        EXCEPT !.history = self.history]

\* a second instance constructed with the arguments of the first, once the
\* first has completed one run
Fresh(self) == Backtester(self.data, self.initial_capital, self.trading_fee)

construct_again ==
    /\ bt_pc = "done"
    /\ bt_start.n = 1
    /\ bt_first = <<>>
    /\ bt_first' = <<bt>>
    /\ bt' = Fresh(bt)
    /\ bt_pc' = "new"
    /\ bt_i' = 0
    /\ bt_pre' = [cash |-> bt.initial_capital, positions |-> 0]
    /\ bt_start' = [n |-> 0, cash |-> bt.initial_capital, positions |-> 0, history |-> <<>>]
    /\ bt_arg' = None
    /\ bt_ret' = NoCall

\* a Backtester used once: constructed, run, queried
BtNext ==
    \/ \E signals \in SignalArgs(Len(bt.data.index)) : bt_pc # "done" /\ run(signals)
    \/ backtest_iteration
    \/ backtest_complete
    \/ get_results
    \/ calculate_performance_metrics

\* a Backtester whose run() is called again after it has returned
RerunNext ==
    \/ BtNext
    \/ bt_pc = "done" /\ \E signals \in RerunArgs(bt) : run(signals)

\* two Backtesters with the same arguments, the second run on the signals
\* of the first
TwinNext ==
    \/ bt_first = <<>> /\ BtNext
    \/ construct_again
    \/ bt_first # <<>> /\ bt_pc = "new" /\ run(bt_first[1].signals)
    \/ bt_first # <<>> /\ (backtest_iteration \/ backtest_complete)

(***************************************************************************)
(* The live decision loop: trading_loop of main.py and the POST /signals   *)
(* handler of api/routes.py.  Every awaited call on a collaborator (the    *)
(* database, the broker client, the strategy) either returns or raises.    *)
(* Each place_order call is written to orders with the state of the kill   *)
(* switch at the call and the statement the handler ran just before it;    *)
(* orders starts afresh with each tick.  The loop's awaits on place_order  *)
(* and on log_trades take two steps, the call and its return: the          *)
(* coroutine is suspended in between, the call is in flight, and the       *)
(* event loop runs the other handlers.  ended_by records what took the     *)
(* loop out of while True, and cleanup the calls its finally clause made.  *)
(***************************************************************************)
MaxTicks == 2

MaxApiCalls == 1

NumTickers == 2

\* top_crypto, cut to its first NumTickers symbols
Tickers == SubSeq(<<"BTC", "ETH", "LTC", "DOGE", "SHIB">>, 1, NumTickers)

LoopSignals == {"BUY", "SELL", "HOLD"}

ApiActions == {"buy", "sell", "hold"}

LiveInit ==
    /\ \E client \in BOOLEAN :
          live = [pc |-> "connect", tick |-> 0, signals |-> <<>>, k |-> 0,
                  logged |-> 0, api_client |-> client, api_calls |-> 0,
                  api_status |-> 0, awaited |-> "", log_write |-> "none",
                  ended_by |-> "", cleanup |-> <<>>]
    /\ orders = <<>>

Order(src, symbol, side, after, outcome) ==
    [src |-> src, symbol |-> symbol, side |-> side, tick |-> live.tick,
     kill_switch |-> rm.is_kill_switch_active, after |-> after,
     outcome |-> outcome]

\* how a call ended
Outcome(ok) == IF ok THEN "completed" ELSE "failed"

\* the calls of the loop that have been made and have not returned
InFlight(placed) == {k \in 1 .. Len(placed) : placed[k].src = "trading_loop"
                                              /\ placed[k].outcome = "in flight"}

\* the orders with the calls in flight ended as outcome
Ended(placed, outcome) ==
    [k \in 1 .. Len(placed) |->
        IF k \in InFlight(placed) THEN [placed[k] EXCEPT !.outcome = outcome]
        ELSE placed[k]]

\* a call made and left behind: the loop goes on without its return
Awaiting_Detached(l, call) ==
    IF call = "log_trades" THEN [l EXCEPT !.pc = "sleep"]
    ELSE [l EXCEPT !.k = @ + 1]

\* await call(...): the loop is suspended until the call returns or raises
Awaiting(l, call) == [l EXCEPT !.pc = "await", !.awaited = call]

\* await database.connect(): a failure is the critical error of the outer try
connect(ok) ==
    /\ live.pc = "connect"
    /\ live' = IF ok THEN [live EXCEPT !.pc = "login"]
               ELSE [live EXCEPT !.pc = "logout", !.ended_by = "connect"]
    /\ UNCHANGED orders

\* await robinhood_client.login()
login(ok) ==
    /\ live.pc = "login"
    /\ live' = IF ok THEN [live EXCEPT !.pc = "fetch"]
               ELSE [live EXCEPT !.pc = "logout", !.ended_by = "login"]
    /\ UNCHANGED orders

\* 1. await robinhood_client.get_crypto_quote(top_crypto)
fetch_quotes(ok) ==
    /\ live.pc = "fetch"
    /\ live.tick < MaxTicks
    /\ live' = [live EXCEPT !.tick = @ + 1, !.signals = <<>>, !.k = 0,
                            !.log_write = "none",
                            !.pc = IF ok THEN "generate" ELSE "retry_sleep"]
    /\ orders' = SelectSeq(orders, LAMBDA o : o.src = "trading_loop"
                                              /\ o.outcome = "in flight")

\* 2. strategy.generate_signals(market_data)
generate_signals(ok) ==
    /\ live.pc = "generate"
    /\ IF ok
       THEN \E sig \in [1 .. Len(Tickers) -> LoopSignals] :
               live' = [live EXCEPT !.signals = sig, !.k = 1, !.pc = "orders"]
       ELSE live' = [live EXCEPT !.pc = "retry_sleep"]
    /\ UNCHANGED orders

\* 3. one pass of for ticker, signal in signals.items(), signal BUY
execute_buy ==
    /\ live.pc = "orders"
    /\ live.k <= Len(live.signals)
    /\ live.signals[live.k] = "BUY"
    /\ orders' = Append(orders, Order("trading_loop", Tickers[live.k], "buy", "signal == BUY", "in flight"))
    /\ live' = Awaiting(live, "buy")

\* signal SELL: holdings are fetched and, if any, sold; the inner try keeps
\* a failure of either call to this ticker
execute_sell(holdings_ok, quantity) ==
    /\ live.pc = "orders"
    /\ live.k <= Len(live.signals)
    /\ live.signals[live.k] = "SELL"
    /\ IF holdings_ok /\ quantity > 0
       THEN /\ orders' = Append(orders, Order("trading_loop", Tickers[live.k], "sell", "get_crypto_holdings", "in flight"))
            /\ live' = Awaiting(live, "sell")
       ELSE /\ live' = [live EXCEPT !.k = @ + 1]
            /\ UNCHANGED orders

\* place_order returning with any failure taken as the error of the tick
place_order_returns_Uncontained(ok) ==
    /\ live.pc = "await"
    /\ live.awaited \in {"buy", "sell"}
    /\ orders' = Ended(orders, Outcome(ok))
    /\ live' = IF ok
               THEN [live EXCEPT !.k = @ + 1, !.pc = "orders", !.awaited = ""]
               ELSE [live EXCEPT !.pc = "retry_sleep", !.awaited = ""]

\* place_order returns or raises: a failed buy is the error of the tick, a
\* failed sell is kept to its ticker
place_order_returns(ok) ==
    /\ live.pc = "await"
    /\ live.awaited \in {"buy", "sell"}
    /\ orders' = Ended(orders, Outcome(ok))
    /\ live' = IF ok \/ live.awaited = "sell"
               THEN [live EXCEPT !.k = @ + 1, !.pc = "orders", !.awaited = ""]
               ELSE [live EXCEPT !.pc = "retry_sleep", !.awaited = ""]

\* any other signal
execute_hold ==
    /\ live.pc = "orders"
    /\ live.k <= Len(live.signals)
    /\ live.signals[live.k] \notin {"BUY", "SELL"}
    /\ live' = [live EXCEPT !.k = @ + 1]
    /\ UNCHANGED orders

\* 4. await database.log_trades(signals)
log_trades ==
    /\ live.pc = "orders"
    /\ live.k > Len(live.signals)
    /\ live' = Awaiting([live EXCEPT !.log_write = "in flight"], "log_trades")
    /\ UNCHANGED orders

\* log_trades returns or raises
log_trades_returns(ok) ==
    /\ live.pc = "await"
    /\ live.awaited = "log_trades"
    /\ live' = IF ok
               THEN [live EXCEPT !.logged = @ + 1, !.pc = "sleep", !.awaited = "",
                                 !.log_write = "completed"]
               ELSE [live EXCEPT !.pc = "retry_sleep", !.awaited = "",
                                 !.log_write = "failed"]
    /\ UNCHANGED orders

\* 5. await asyncio.sleep(60), at the end of the tick or in except Exception
sleep ==
    /\ live.pc \in {"sleep", "retry_sleep"}
    /\ live' = [live EXCEPT !.pc = "fetch"]
    /\ UNCHANGED orders

\* the task is cancelled at one of its awaits: CancelledError passes both
\* except Exception clauses, and is raised in the call the loop awaits
cancel ==
    /\ live.pc \in {"connect", "login", "fetch", "orders", "await", "sleep", "retry_sleep"}
    /\ live' = [live EXCEPT !.pc = "logout", !.awaited = "",
                            !.ended_by = "cancelled",
                            !.log_write = IF @ = "in flight" THEN "failed" ELSE @]
    /\ orders' = Ended(orders, "failed")

\* finally: await robinhood_client.logout(); if it raises, disconnect is skipped
logout(ok) ==
    /\ live.pc = "logout"
    /\ live' = [live EXCEPT !.pc = IF ok THEN "disconnect" ELSE "finished",
                            !.cleanup = Append(@, "logout")]
    /\ UNCHANGED orders

\* finally: await database.disconnect()
disconnect ==
    /\ live.pc = "disconnect"
    /\ live' = [live EXCEPT !.pc = "finished", !.cleanup = Append(@, "disconnect")]
    /\ UNCHANGED orders

\* POST /signals: receive_signal(signal)
receive_signal(action, ok) ==
    /\ live.api_calls < MaxApiCalls
    /\ IF ~live.api_client
       THEN /\ live' = [live EXCEPT !.api_calls = @ + 1, !.api_status = 500]
            /\ UNCHANGED orders
       ELSE IF action \in {"buy", "sell"}
       THEN /\ orders' = Append(orders, Order("receive_signal", "BTC", action,
                                    IF action = "buy" THEN "signal.action == buy"
                                    ELSE "signal.action == sell", Outcome(ok)))
            /\ live' = [live EXCEPT !.api_calls = @ + 1,
                                    !.api_status = IF ok THEN 200 ELSE 500]
       ELSE /\ live' = [live EXCEPT !.api_calls = @ + 1, !.api_status = 500]
            /\ UNCHANGED orders

LiveNext ==
    \/ \E ok \in BOOLEAN : connect(ok)
    \/ \E ok \in BOOLEAN : login(ok)
    \/ \E ok \in BOOLEAN : fetch_quotes(ok)
    \/ \E ok \in BOOLEAN : generate_signals(ok)
    \/ execute_buy
    \/ \E holdings_ok \in BOOLEAN, quantity \in {0, 1} :
          execute_sell(holdings_ok, quantity)
    \/ \E ok \in BOOLEAN : place_order_returns(ok)
    \/ execute_hold
    \/ log_trades
    \/ \E ok \in BOOLEAN : log_trades_returns(ok)
    \/ sleep
    \/ cancel
    \/ \E ok \in BOOLEAN : logout(ok)
    \/ disconnect
    \/ \E action \in ApiActions, ok \in BOOLEAN : receive_signal(action, ok)

(***************************************************************************)
(* Specifications: the RiskManager alone, the Backtester alone, and the    *)
(* live loop beside a RiskManager whose kill switch an operator works.     *)
(***************************************************************************)
RiskIdle ==
    /\ rm = None
    /\ rm_pre = None
    /\ rm_op = "none"
    /\ rm_arg = None
    /\ rm_ret = None
    /\ passed = <<>>

BtIdle ==
    /\ bt = None
    /\ bt_pc = "none"
    /\ bt_i = 0
    /\ bt_pre = None
    /\ bt_arg = None
    /\ bt_start = None
    /\ bt_ret = None
    /\ bt_first = None

LiveIdle ==
    /\ live = None
    /\ orders = <<>>

InitRisk == RiskInit /\ BtIdle /\ LiveIdle

NextRisk == RiskNext /\ UNCHANGED <<btVars, liveVars>>

SpecRisk == InitRisk /\ [][NextRisk]_vars

InitBacktest == BtInit /\ RiskIdle /\ LiveIdle

NextBacktest == BtNext /\ UNCHANGED <<rmVars, liveVars>>

SpecBacktest == InitBacktest /\ [][NextBacktest]_vars

NextRerun == RerunNext /\ UNCHANGED <<rmVars, liveVars>>

SpecRerun == InitBacktest /\ [][NextRerun]_vars

NextTwin == TwinNext /\ UNCHANGED <<rmVars, liveVars>>

SpecTwin == InitBacktest /\ [][NextTwin]_vars

InitLive == LiveInit /\ RiskInit /\ BtIdle

NextLive ==
    \/ LiveNext /\ UNCHANGED <<rmVars, btVars>>
    \/ (activate_kill_switch \/ reset) /\ UNCHANGED <<btVars, liveVars>>

SpecLive == InitLive /\ [][NextLive]_vars

(***************************************************************************)
(* Claims on the RiskManager, checked under SpecRisk.                      *)
(***************************************************************************)
Config(self) == <<self.initial_capital, self.max_position_size, self.max_drawdown>>

\* C1: check_drawdown() returns true iff (peak_balance - current_balance) /
\* initial_capital > max_drawdown; the kill switch is set when it returns
\* true and is left as it was when it returns false.  With initial_capital
\* 10000 and max_drawdown 0.05 it returns false after update_balance(11000)
\* and true after update_balance(11000), update_balance(9000), and then
\* is_trading_allowed() is false.
C1_CheckDrawdown ==
    rm_op = "check_drawdown" =>
        LET drawdown == FDiv(FSub(rm_pre.peak_balance, rm_pre.current_balance),
                             rm_pre.initial_capital)
            example == /\ rm.initial_capital = FFromInt(10000)
                       /\ rm.max_drawdown = FLit(5, 100)
        IN  /\ rm_ret = FGt(drawdown, rm_pre.max_drawdown)
            /\ rm_ret => rm.is_kill_switch_active
            /\ ~rm_ret => rm.is_kill_switch_active = rm_pre.is_kill_switch_active
            /\ example /\ passed = <<FFromInt(11000)>> => ~rm_ret
            /\ example /\ passed = <<FFromInt(11000), FFromInt(9000)>> =>
                  rm_ret /\ ~TradingAllowed(rm)

C1_Witness ==
    /\ rm_op = "check_drawdown"
    /\ rm.max_drawdown = FLit(5, 100)
    /\ passed = <<FFromInt(11000), FFromInt(9000)>>
    /\ ~rm_pre.is_kill_switch_active
    /\ rm_ret = TRUE
    /\ rm.is_kill_switch_active

\* C2: the kill switch is a one-way latch.  Once set, every operation but
\* reset() leaves it set, whatever the balance does; is_trading_allowed()
\* returns false while it is set; activate_kill_switch() sets it and changes
\* nothing when it is already set.
C2_Latch ==
    /\ rm_pre.is_kill_switch_active /\ rm_op \notin {"reset", "__init__"} =>
          rm.is_kill_switch_active
    /\ rm_op = "is_trading_allowed" =>
          rm_ret = ~rm.is_kill_switch_active /\ rm = rm_pre
    /\ rm_op = "activate_kill_switch" =>
          /\ rm.is_kill_switch_active
          /\ rm_pre.is_kill_switch_active => rm = rm_pre

\* the switch is set, the balance is back at a new peak after a lower
\* balance, a drawdown check has run since, and trading is still refused
C2_Witness ==
    /\ rm_op = "is_trading_allowed"
    /\ rm_ret = FALSE
    /\ Len(passed) = MaxUpdates
    /\ FLt(passed[1], rm.initial_capital)
    /\ FGt(passed[2], rm.initial_capital)
    /\ rm.current_balance = rm.peak_balance
    /\ ~DrawdownExceeded(rm)

RECURSIVE RunningMax(_, _)
RunningMax(first, rest) ==
    IF rest = <<>> THEN first
    ELSE LET m == RunningMax(first, SubSeq(rest, 1, Len(rest) - 1))
             last == rest[Len(rest)]
         IN  IF FGt(last, m) THEN last ELSE m

\* C4: after each update_balance call on a fresh RiskManager, current_balance
\* is the value just passed and peak_balance is the maximum of
\* initial_capital and all balances passed so far.
C4_RunningPeak ==
    /\ passed # <<>> => rm.current_balance = passed[Len(passed)]
    /\ rm.peak_balance = RunningMax(rm.initial_capital, passed)
    /\ rm_op = "update_balance" => rm.current_balance = rm_arg

C4_Witness ==
    /\ rm_op = "update_balance"
    /\ Len(passed) = 3
    /\ FGt(rm.peak_balance, rm.initial_capital)
    /\ FLt(rm.current_balance, rm.initial_capital)
    /\ FLt(passed[2], rm.current_balance)

\* C5: after reset(), from any prior state, current_balance = peak_balance =
\* initial_capital, the kill switch is false, and initial_capital,
\* max_position_size and max_drawdown are unchanged.
C5_Reset ==
    rm_op = "reset" =>
        /\ rm.current_balance = rm.initial_capital
        /\ rm.peak_balance = rm.initial_capital
        /\ ~rm.is_kill_switch_active
        /\ Config(rm) = Config(rm_pre)

C5_Witness ==
    /\ rm_op = "reset"
    /\ rm_pre.is_kill_switch_active
    /\ FLt(rm_pre.current_balance, rm.initial_capital)
    /\ FGt(rm_pre.peak_balance, rm.initial_capital)
    /\ rm.peak_balance = rm.initial_capital

\* C6: check_position_size(x) returns true iff x <= current_balance *
\* max_position_size, equality allowed, and a size accepted at one balance
\* is accepted at every balance at least as large.
C6_PositionSize ==
    rm_op = "check_position_size" =>
        /\ rm_ret = FLe(rm_arg, FMul(rm.current_balance, rm.max_position_size))
        /\ rm = rm_pre
        /\ rm_ret => \A b \in Balances :
              FGe(b, rm.current_balance) =>
                  PositionSizeOk([rm EXCEPT !.current_balance = b], rm_arg)

\* a size exactly at the limit is accepted, and larger balances exist
C6_Witness ==
    /\ rm_op = "check_position_size"
    /\ rm_ret = TRUE
    /\ rm_arg = FMul(rm.current_balance, rm.max_position_size)
    /\ \E b \in Balances : FGt(b, rm.current_balance)

(***************************************************************************)
(* Claims on the Backtester, checked under SpecBacktest.  Stepped is true  *)
(* once the loop has run an iteration: Last is then the snapshot it        *)
(* appended and bt_pre holds cash and positions from before it.            *)
(***************************************************************************)
Stepped == bt_pc \in {"loop", "done"} /\ bt.history # <<>>

Last == bt.history[Len(bt.history)]

\* math.floor of a float
FFloor(a) ==
    IF a.s = 1 /\ a.e < 0 /\ BLowBits(a.m, -a.e) THEN FTrunc(a) - 1 ELSE FTrunc(a)

\* units * price * (1 + trading_fee)
CostOf(units, price) == FMul(FMul(FFromInt(units), price), FAdd(FOne, bt.trading_fee))

\* C7: every snapshot of a run (positive prices, 0 <= trading_fee < 1,
\* initial_capital >= 0) has equity = cash + positions * price for its own
\* price, and cash >= 0.
C7_Conservation ==
    bt_pc \in {"loop", "done"} =>
        \A k \in 1 .. Len(bt.history) :
            LET h == bt.history[k]
            IN  /\ h.equity = FAdd(h.cash, FMul(FFromInt(h.positions), h.price))
                /\ FGe(h.cash, FZero)

\* C8: a BUY step buys units = floor(cash / (price * (1 + trading_fee))), the
\* largest whole number of units affordable.  With units >= 1, cash falls by
\* units * price * (1 + trading_fee) and positions rises by units; with
\* units = 0, cash and positions are unchanged.
C8_Buy ==
    Stepped /\ Last.signal = 1 =>
        LET price == Last.price
            units == FFloor(FDiv(bt_pre.cash, FMul(price, FAdd(FOne, bt.trading_fee))))
        IN  /\ Last.positions - bt_pre.positions = units
            /\ units >= 1 =>
                  /\ Last.cash = FSub(bt_pre.cash, CostOf(units, price))
                  /\ FLe(CostOf(units, price), bt_pre.cash)
                  /\ FGt(CostOf(units + 1, price), bt_pre.cash)
            /\ units = 0 => Last.cash = bt_pre.cash

\* C9: a SELL step with positions > 0 sells the whole position: cash rises by
\* positions * price * (1 - trading_fee) and positions becomes 0; with
\* positions = 0 it changes neither.  positions is a non-negative integer in
\* every snapshot.
C9_Sell ==
    /\ Stepped /\ Last.signal = -1 =>
          LET revenue == FMul(FMul(FFromInt(bt_pre.positions), Last.price),
                              FSub(FOne, bt.trading_fee))
          IN  /\ Last.positions = 0
              /\ bt_pre.positions > 0 => Last.cash = FAdd(bt_pre.cash, revenue)
              /\ bt_pre.positions = 0 => Last.cash = bt_pre.cash
    /\ bt_pc \in {"loop", "done"} =>
          /\ bt.positions \in Nat
          /\ \A k \in 1 .. Len(bt.history) : bt.history[k].positions \in Nat

C9_Witness ==
    /\ Stepped
    /\ Last.signal = -1
    /\ bt_pre.positions > 1
    /\ bt.trading_fee # FZero
    /\ bt.positions = 0
    /\ FGt(bt.cash, bt_pre.cash)

\* C10: validation comes before any simulation step.  run(signals) with a
\* signals index that differs from the price index (in labels or in length)
\* raises, and a run that raised leaves history empty and cash, positions and
\* equity at their initial values; a frame without the price column is
\* rejected by the constructor.
C10_Validation ==
    /\ bt_pc = "rejected" <=> ~bt.data.has_close
    /\ bt_pc \notin {"new", "rejected"} /\ bt_arg.index # bt.data.index =>
          bt_pc \in {"TypeError", "ValueError"}
    /\ bt_pc \in {"TypeError", "ValueError"} =>
          /\ bt.history = <<>>
          /\ bt.cash = bt.initial_capital
          /\ bt.positions = 0
          /\ bt.equity = bt.initial_capital

\* a run refused for its index labels alone; its signals were all BUY
C10_Witness ==
    /\ bt_pc = "ValueError"
    /\ bt_arg.is_series
    /\ Len(bt_arg.index) = Len(bt.data.index)
    /\ Len(bt_arg.index) > 1
    /\ bt_arg.index # bt.data.index
    /\ bt.history = <<>>

(***************************************************************************)
(* Claims on a Backtester whose run() is called again, checked under       *)
(* SpecRerun.                                                              *)
(***************************************************************************)
\* C11: a second run() on the same instance is rejected or starts afresh: a
\* run that enters the simulation after an earlier one never finds the
\* earlier run's snapshots in history, nor its ending cash and positions.
C11_Rerun ==
    bt_start.n >= 2 =>
        /\ bt_start.history = <<>>
        /\ bt_start.cash = bt.initial_capital
        /\ bt_start.positions = 0

(***************************************************************************)
(* Claims on the metrics, checked under SpecBacktest.  Measured is true    *)
(* when calculate_performance_metrics() was the last call on the instance. *)
(***************************************************************************)
Measured == bt_ret.op = "calculate_performance_metrics"

\* the equity of every snapshot of the history, the first included
Curve == [k \in 1 .. Len(bt.history) |-> bt.history[k].equity]

RECURSIVE PeakThrough(_, _)
\* the largest of the first i values
PeakThrough(curve, i) ==
    IF i = 1 THEN curve[1] ELSE FMaxOf(PeakThrough(curve, i - 1), curve[i])

\* (peak_through_i - equity_i) / peak_through_i
DrawdownAt(curve, i) ==
    FDiv(FSub(PeakThrough(curve, i), curve[i]), PeakThrough(curve, i))

\* C12: the max_drawdown metric is the maximum over every snapshot i of the
\* whole history, the first included, of (peak_through_i - equity_i) /
\* peak_through_i, peak_through_i being the largest equity among snapshots
\* 0..i.
C12_MaxDrawdown ==
    Measured /\ bt.history # <<>> /\ bt_ret.raised = None =>
        /\ \A i \in 1 .. Len(Curve) : FGe(bt_ret.value.max_drawdown, DrawdownAt(Curve, i))
        /\ \E i \in 1 .. Len(Curve) : bt_ret.value.max_drawdown = DrawdownAt(Curve, i)

\* the equity never moved from the initial capital
Flat == \A k \in 1 .. Len(bt.history) : bt.history[k].equity = bt.initial_capital

\* C13: with a non-empty history whose equity curve is flat or has a single
\* step (one snapshot, from a two-element price series),
\* calculate_performance_metrics() returns metrics whose sharpe_ratio is
\* NaN: it does not raise and does not report 0.
C13_SharpeUndefined ==
    Measured /\ bt.history # <<>> /\ (Flat \/ Len(bt.history) = 1) =>
        /\ bt_ret.raised = None
        /\ IsNaN(bt_ret.value.sharpe_ratio)

\* C15: before run() has been invoked, get_results() returns an empty table
\* and calculate_performance_metrics() an empty metrics result; neither
\* raises and neither changes the backtester's state.
C15_EmptyBeforeRun ==
    bt_pc = "new" /\ bt_ret.op # "none" =>
        /\ bt_ret.raised = None
        /\ bt_ret.op = "get_results" => bt_ret.value = EmptyFrame
        /\ bt_ret.op = "calculate_performance_metrics" => bt_ret.value = EmptyDict
        /\ bt = bt_ret.pre
        /\ bt = Backtester(bt.data, bt.initial_capital, bt.trading_fee)

C15_Witness ==
    /\ bt_pc = "new"
    /\ bt_start.n = 0
    /\ bt_ret.op = "calculate_performance_metrics"
    /\ bt_ret.value = EmptyDict

\* the worked example has been run: prices [100, 110, 90, 120], signals
\* [HOLD, BUY, SELL, HOLD], initial_capital 1000, fee 0
ExampleRun ==
    /\ bt_pc = "done"
    /\ bt.data.close = ExampleClose
    /\ bt.signals.values = <<0, 1, -1, 0>>
    /\ bt.initial_capital = FFromInt(1000)
    /\ bt.trading_fee = FZero

\* the snapshots of the worked example: 9 units bought at 110 (cash 10),
\* all 9 sold at 90 (cash 820), equity 820 after the final HOLD
ExampleHistory ==
    /\ Len(bt.history) = 3
    /\ bt.history[1].positions = 9 /\ bt.history[1].cash = FFromInt(10)
    /\ bt.history[2].positions = 0 /\ bt.history[2].cash = FFromInt(820)
    /\ bt.history[3].positions = 0 /\ bt.history[3].cash = FFromInt(820)
    /\ bt.history[3].equity = FFromInt(820)

\* C16 as stated: the worked example ends with equity 820 and reports
\* total_return = final_equity / initial_capital - 1 = -0.18.
C16_ExampleExact ==
    ExampleRun =>
        /\ ExampleHistory
        /\ Measured =>
              /\ bt_ret.raised = None
              /\ bt_ret.value.total_return = FLit(-18, 100)

\* C16: the worked example buys 9 units at 110 (cash 10, positions 9), sells
\* all 9 at 90 (cash 820, positions 0), ends with equity 820 after the final
\* HOLD, and reports total_return = final_equity / initial_capital - 1 as
\* floats compute it: 820 / 1000 - 1, which is not the float -0.18 but lies
\* within 10^-16 of it.
C16_Example ==
    ExampleRun =>
        /\ ExampleHistory
        /\ Measured =>
              /\ bt_ret.raised = None
              /\ bt_ret.value.final_equity = FFromInt(820)
              /\ bt_ret.value.total_return = FSub(FDiv(FFromInt(820), FFromInt(1000)), FOne)
              /\ bt_ret.value.total_return # FLit(-18, 100)
              /\ FLt(bt_ret.value.total_return, FLit(-18, 100))
              /\ FLt(FSub(FLit(-18, 100), bt_ret.value.total_return),
                     FMul(FLit(1, 100000000), FLit(1, 100000000)))

C16_Witness == ExampleRun /\ Measured /\ ExampleHistory

\* C17: on a HOLD step (a signal that is neither BUY nor SELL) the snapshot's
\* cash and positions are those of the previous step; only equity may
\* change, and only through the price.
C17_Hold ==
    Stepped /\ Last.signal \notin {1, -1} =>
        /\ Last.cash = bt_pre.cash
        /\ Last.positions = bt_pre.positions
        /\ Last.equity = FAdd(bt_pre.cash, FMul(FFromInt(bt_pre.positions), Last.price))

\* a HOLD with a position held, at a price that moved the equity
C17_Witness ==
    /\ Stepped
    /\ Last.signal \notin {1, -1}
    /\ bt_pre.positions > 0
    /\ Len(bt.history) >= 2
    /\ Last.equity # bt.history[Len(bt.history) - 1].equity

\* C19 as stated: no operation of the RiskManager ever lowers peak_balance.
C19_NeverLowered == [][FGe(rm'.peak_balance, rm.peak_balance)]_vars

\* C19: peak_balance is non-decreasing under every operation of a
\* RiskManager except reset(): update_balance raises it or leaves it, the
\* checks and the kill switch leave it, and reset() alone sets it back to
\* initial_capital, which may be lower.
C19_PeakMonotone ==
    [][IF rm_op' = "reset"
       THEN rm'.peak_balance = rm.initial_capital
       ELSE FGe(rm'.peak_balance, rm.peak_balance)]_vars

\* the balance fell below a peak that update_balance had raised and kept
C19_Witness ==
    /\ rm_op = "update_balance"
    /\ Len(passed) >= 2
    /\ FGt(rm.peak_balance, rm.initial_capital)
    /\ FLt(rm.current_balance, rm.peak_balance)
    /\ rm.peak_balance = rm_pre.peak_balance

\* C21: peak_balance >= current_balance holds after construction, after
\* every update_balance call and after every reset, so in every state the
\* operations of a RiskManager reach; the drawdown check_drawdown computes,
\* (peak_balance - current_balance) / initial_capital, is never negative.
C21_PeakAboveBalance ==
    /\ FGe(rm.peak_balance, rm.current_balance)
    /\ FGe(FDiv(FSub(rm.peak_balance, rm.current_balance), rm.initial_capital),
           FZero)

\* check_drawdown has run with the balance below a peak that an update
\* had raised above the initial capital
C21_Witness ==
    /\ rm_op = "check_drawdown"
    /\ FGt(rm.peak_balance, rm.initial_capital)
    /\ FLt(rm.current_balance, rm.initial_capital)
    /\ Len(passed) = 2

\* the balance passed at call j was in breach of max_drawdown
Breached(j) ==
    FGt(FDiv(FSub(RunningMax(rm.initial_capital, SubSeq(passed, 1, j)), passed[j]),
             rm.initial_capital),
        rm.max_drawdown)

\* C22: update_balance never changes the kill switch; is_trading_allowed()
\* returns true exactly while the switch is off; the switch goes on only at
\* activate_kill_switch() or at a check_drawdown() call made while the
\* balance is in breach, so a breach is detected only at a check_drawdown
\* call and is missed if the balance recovers before that call.
C22_UpdateLeavesSwitch ==
    [][/\ rm_op' = "update_balance" =>
             rm'.is_kill_switch_active = rm.is_kill_switch_active
       /\ rm_op' = "is_trading_allowed" =>
             /\ rm_ret' = ~rm.is_kill_switch_active
             /\ rm'.is_kill_switch_active = rm.is_kill_switch_active
       /\ rm'.is_kill_switch_active /\ ~rm.is_kill_switch_active =>
             \/ rm_op' = "activate_kill_switch"
             \/ /\ rm_op' = "check_drawdown"
                /\ FGt(FDiv(FSub(rm.peak_balance, rm.current_balance),
                            rm.initial_capital),
                       rm.max_drawdown)]_vars

\* a balance in breach was passed, the balance recovered, and the
\* check_drawdown call made after the recovery found nothing: trading is
\* still allowed
C22_Witness ==
    /\ rm_op = "check_drawdown"
    /\ rm_ret = FALSE
    /\ ~rm.is_kill_switch_active
    /\ Len(passed) >= 2
    /\ \E j \in 1 .. Len(passed) - 1 : Breached(j)
    /\ ~Breached(Len(passed))

\* every snapshot carries the timestamp, price and signal of its row, the
\* loop has appended one snapshot per row passed, and nothing has been
\* traded or recorded before the second row
InSeriesOrder ==
    bt_pc \in {"loop", "done"} =>
        /\ Len(bt.history) = bt_i - 1
        /\ \A k \in 1 .. Len(bt.history) :
              /\ bt.history[k].timestamp = bt.data.index[k + 1]
              /\ bt.history[k].price = bt.data.close[k + 1]
              /\ bt.history[k].signal = bt.signals.values[k + 1]
        /\ bt_i = 1 =>
              /\ bt.history = <<>>
              /\ bt.cash = bt.initial_capital
              /\ bt.positions = 0
        /\ bt_pc = "done" => Len(bt.history) = Len(bt.data.close) - 1

\* a step of a run keeps every snapshot already appended, as it was
SnapshotsKept ==
    bt_pc = "loop" =>
        /\ Len(bt.history') >= Len(bt.history)
        /\ SubSeq(bt.history', 1, Len(bt.history)) = bt.history

\* C18: a run over n rows appends exactly n - 1 snapshots, one per row from
\* the second on and in order (the k-th snapshot carries the timestamp, price
\* and signal of row k + 1); the first row's signal, even a BUY, triggers no
\* trade and no snapshot; snapshots already appended are never modified or
\* removed by later steps.
C18_Snapshots == [](InSeriesOrder) /\ [][SnapshotsKept]_vars

\* a run of three rows whose first signal was a BUY, finished
C18_Witness ==
    /\ bt_pc = "done"
    /\ Len(bt.data.close) = 3
    /\ bt.signals.values[1] = 1
    /\ bt.signals.values[2] # 1
    /\ Len(bt.history) = 2
    /\ bt.history[1].positions = 0

\* cash + positions * price before the trade of the last step, at its price
ValuedBefore == FAdd(bt_pre.cash, FMul(FFromInt(bt_pre.positions), Last.price))

\* the units the last step bought or sold
UnitsTraded ==
    IF Last.positions >= bt_pre.positions THEN Last.positions - bt_pre.positions
    ELSE bt_pre.positions - Last.positions

\* the last step executed a trade
TradedStep == Stepped /\ Last.positions # bt_pre.positions

\* the equity before the trade less trading_fee * units traded * price
LessFee ==
    FSub(ValuedBefore, FMul(FMul(bt.trading_fee, FFromInt(UnitsTraded)), Last.price))

\* 2^-50, four units in the last place of a float in [1, 2)
Rounding == FMul(FLit(1, 33554432), FLit(1, 33554432))

\* a and b differ by no more than Rounding * scale
Near(a, b, scale) ==
    /\ FLe(FSub(a, b), FMul(Rounding, scale))
    /\ FLe(FSub(b, a), FMul(Rounding, scale))

C3_OrdersGated ==
    \A k \in 1 .. Len(orders) :
        /\ orders[k].after = "is_trading_allowed"
        /\ ~orders[k].kill_switch

\* C20: the live trading loop is one sequential decision stream: at most
\* one call of the loop is in flight at a time, every call in flight
\* belongs to the current tick, and when the loop is between ticks, about
\* to fetch the next quotes, every order submission and the trade-log
\* write of the tick behind it has completed or failed.
C20_Sequential ==
    /\ Cardinality(InFlight(orders))
          + (IF live.log_write = "in flight" THEN 1 ELSE 0) <= 1
    /\ \A k \in InFlight(orders) : orders[k].tick = live.tick
    /\ live.pc \in {"fetch", "sleep", "retry_sleep", "generate"} =>
          /\ InFlight(orders) = {}
          /\ live.log_write # "in flight"
    /\ live.pc = "await" <=>
          InFlight(orders) # {} \/ live.log_write = "in flight"

\* a tick that bought, had a sell fail and wrote its log is behind the loop,
\* which is about to fetch the next quotes
C20_Witness ==
    /\ live.pc = "fetch"
    /\ live.tick = 1
    /\ live.log_write = "completed"
    /\ \E j, k \in 1 .. Len(orders) :
          /\ orders[j].src = "trading_loop"
          /\ orders[j].outcome = "completed"
          /\ orders[k].src = "trading_loop"
          /\ orders[k].outcome = "failed"

\* the loop is inside a tick
InTick == live.pc \in {"generate", "orders", "await"}

\* the loop has left while True
LeftLoop == live.pc \in {"logout", "disconnect", "finished"}

\* the loop leaves while True only when start-up failed or the task was
\* cancelled
C24_EndsOnlyByStartOrCancel ==
    LeftLoop => live.ended_by \in {"connect", "login", "cancelled"}

\* a step out of a tick, and a step out of the wait after a failed tick,
\* goes to the wait or to the next fetch unless the task was cancelled
C24_FailureRetried ==
    [][/\ InTick /\ ~InTick' =>
             \/ live'.pc \in {"sleep", "retry_sleep"}
             \/ live'.ended_by = "cancelled"
       /\ live.pc = "fetch" /\ live'.pc # "fetch" =>
             \/ live'.pc \in {"generate", "retry_sleep"}
             \/ live'.ended_by = "cancelled"
       /\ live.pc = "retry_sleep" /\ live'.pc # "retry_sleep" =>
             \/ live'.pc = "fetch"
             \/ live'.ended_by = "cancelled"]_vars

\* once the loop has finished, logout and disconnect have both been called
C24_CleanedUp ==
    live.pc = "finished" => live.cleanup = <<"logout", "disconnect">>

\* C24: an exception raised inside a tick of the live trading loop (quote
\* fetch, signal generation, a BUY order, the trade-log write) never ends
\* the loop: it is caught, the loop waits and starts a next tick, however
\* many ticks have failed; the loop ends only if database connect or broker
\* login fails or the task is cancelled, and then logout and disconnect are
\* both attempted.
C24_LoopSurvives ==
    /\ [](C24_EndsOnlyByStartOrCancel)
    /\ C24_FailureRetried
    /\ [](C24_CleanedUp)

\* the orders of the loop that failed on the given side, the task not
\* having been cancelled
FailedOrders(side) ==
    {j \in 1 .. Len(orders) : /\ orders[j].src = "trading_loop"
                              /\ orders[j].side = side
                              /\ orders[j].outcome = "failed"
                              /\ live.ended_by # "cancelled"}

\* a failed BUY order is the last order of its tick, and the tick's log is
\* not written
BuyFailureAborts ==
    \A j \in FailedOrders("buy") :
        /\ \A k \in j + 1 .. Len(orders) : orders[k].src # "trading_loop"
        /\ live.log_write = "none"
        /\ ~InTick

\* the step after a SELL signal, whether the holdings fetch fails, nothing
\* is held or the order is placed and fails, goes on to the next symbol
SellFailureContained ==
    [][/\ live.pc = "await" /\ live.awaited = "sell" /\ live'.pc # "await"
          /\ live'.ended_by # "cancelled" =>
             /\ live'.pc = "orders"
             /\ live'.k = live.k + 1
             /\ live'.signals = live.signals
       /\ live.pc = "orders" /\ live.k <= Len(live.signals)
          /\ live.signals[live.k] = "SELL"
          /\ (live'.pc # live.pc \/ live'.k # live.k)
          /\ live'.ended_by # "cancelled" =>
             \/ live'.pc = "await" /\ live'.awaited = "sell" /\ live'.k = live.k
             \/ live'.pc = "orders" /\ live'.k = live.k + 1
       /\ live.pc = "await" /\ live.awaited = "buy" /\ live'.pc # "await"
          /\ live'.ended_by # "cancelled"
          /\ (\E j \in 1 .. Len(orders') : /\ orders'[j].src = "trading_loop"
                                           /\ orders'[j].outcome = "failed"
                                           /\ orders'[j].side = "buy") =>
             live'.pc = "retry_sleep"]_vars

\* C25: within one tick, a failure while placing a BUY order for one symbol
\* aborts the rest of the tick: no order is placed for a later symbol and
\* the trade log is not written for that tick; a failure while fetching
\* holdings or placing a SELL order for one symbol is contained, and the
\* remaining symbols are still processed.
C25_BuyAbortsSellContained == [](BuyFailureAborts) /\ SellFailureContained

\* a tick whose first symbol's SELL order failed, whose second symbol's BUY
\* order went through, and whose log was written
C25_Witness ==
    /\ live.pc = "sleep"
    /\ live.log_write = "completed"
    /\ \E j, k \in 1 .. Len(orders) :
          /\ j < k
          /\ j \in FailedOrders("sell")
          /\ orders[j].symbol = Tickers[1]
          /\ orders[k].src = "trading_loop"
          /\ orders[k].side = "buy"
          /\ orders[k].symbol = Tickers[2]
          /\ orders[k].outcome = "completed"

\* a tick that stopped at the failed BUY order of its first symbol, the
\* second symbol having had a signal to trade
C25_Aborted ==
    /\ live.pc = "retry_sleep"
    /\ FailedOrders("buy") # {}
    /\ \A j \in FailedOrders("buy") : orders[j].symbol = Tickers[1]
    /\ live.signals[2] = "BUY"

====
